---- MODULE Spec2Model ----
(***************************************************************************)
(* IP-tag knowledge base (utils/knowledge_base.py) with its callers        *)
(* (rest_api/apps.py, rest_api/views.py).                                  *)
(*                                                                         *)
(* Strings are modelled by what the code reads from them:                  *)
(*   - an address string is the tuple of its numeric groups                *)
(*     ("10.20.30.40" is <<10,20,30,40>>, "2001:db8::1" is                 *)
(*     <<8193,3512,0,0,0,0,0,1>>, "300.300.300" is <<300,300,300>>);       *)
(*   - a network string is [addr |-> address tuple, len |-> prefix length];*)
(*   - a tag is the tuple of its code points ("bar" is <<98,97,114>>), so  *)
(*     that sorted() orders tags as Python orders str.                     *)
(***************************************************************************)
EXTENDS Integers, Sequences, FiniteSets, TLC

VARIABLES
    data,          \* KnowledgeBase.data: the parsed JSON records
    idx,           \* position of the for loop of __create_patricia_trie
    trie,          \* KnowledgeBase.trie: canonical network string -> tag
    kb,            \* RestApiConfig.knowledge_base: "loading" | "ready" | "none"
    loadError,     \* the exception that left the constructor, or NoError
    cache,         \* lru_cache of retrieve_tags_using_ip, least recent first
    pc,            \* per request thread: position inside retrieve_tags_using_ip
    arg,           \* per thread: the ip argument of the running call
    prefix,        \* per thread: local variable prefix
    matched_tags,  \* per thread: local variable matched_tags (prefix -> tag)
    ret,           \* per thread: outcome of the last call
    lookups,       \* per thread: trie operations executed by the running call
    first,         \* history: ip -> list returned by the first successful call
    fresh,         \* number of never-seen-before addresses queried so far
    env            \* the workload: [threads, queryIps, maxFresh]

vars == <<data, idx, trie, kb, loadError, cache, pc, arg, prefix,
          matched_tags, ret, lookups, first, fresh, env>>

-----------------------------------------------------------------------------
(* Bounds of the model *)

MaxRecords == 3
NumThreads == 2
ExtraFresh == 1
DeepExtra == 1

(* Program constants *)

MaxPrefixes == 10
CacheMaxSize == 128

Threads == 1..NumThreads

None == [addr |-> <<>>, len |-> -1]
NoError == [kind |-> "none"]
EmptyMap == [k \in {} |-> None]

-----------------------------------------------------------------------------
(* ipaddress: parsing of address and network strings *)

\* ipaddress.ip_address(ip).version, 0 when ip_address raises ValueError
Family(a) ==
    IF Len(a) = 4 /\ \A i \in 1..4 : a[i] \in 0..255 THEN 4
    ELSE IF Len(a) = 8 /\ \A i \in 1..8 : a[i] \in 0..65535 THEN 6
    ELSE 0

GroupWidth(a) == IF Len(a) = 4 THEN 8 ELSE 16

\* bit i of the packed address, the most significant bit being bit 1
Bit(a, i) ==
    LET w == GroupWidth(a)
    IN (a[((i - 1) \div w) + 1] \div (2 ^ (w - 1 - ((i - 1) % w)))) % 2

\* the packed address
Bits(a) == [i \in 1..(Len(a) * GroupWidth(a)) |-> Bit(a, i)]

\* ipaddress.ip_network(n) (strict) returns a network; otherwise ValueError
ValidNetwork(n) ==
    /\ Family(n.addr) # 0
    /\ n.len \in 0..(Len(n.addr) * GroupWidth(n.addr))
    /\ \A i \in (n.len + 1)..(Len(n.addr) * GroupWidth(n.addr)) : Bit(n.addr, i) = 0

NetworkFamily(n) == Family(n.addr)

\* the network's prefix bits
PrefixBits(n) == SubSeq(Bits(n.addr), 1, n.len)

-----------------------------------------------------------------------------
(* pytricia.PyTricia as the code uses it *)

\* key k matches address/prefix bits b: the first k.len bits agree
Matches(k, b) == k.len <= Len(b) /\ SubSeq(b, 1, k.len) = PrefixBits(k)

Longest(S) == IF S = {} THEN None ELSE CHOOSE k \in S : \A j \in S : j.len <= k.len

\* trie.get_key(address): the most specific stored prefix containing it
get_key(t, a) == Longest({k \in DOMAIN t : Matches(k, Bits(a))})

\* faulty variant: no ascent, only the most specific prefix is ever visited
parent_none(t, p) == None

\* trie.parent(prefix): the most specific stored prefix strictly containing it
parent(t, p) ==
    Longest({k \in DOMAIN t : k.len < p.len /\ Matches(k, PrefixBits(p))})

\* faulty variant: an existing key keeps its first value
TrieAssignKeep(t, k, v) ==
    [j \in DOMAIN t \cup {k} |-> IF j \in DOMAIN t THEN t[j] ELSE v]

\* trie[key] = tag
TrieAssign(t, k, v) == [j \in DOMAIN t \cup {k} |-> IF j = k THEN v ELSE t[j]]

-----------------------------------------------------------------------------
(* sorted(set(matched_tags.values())) *)

RECURSIVE LexLess(_, _)
LexLess(s, t) ==
    IF t = <<>> THEN FALSE
    ELSE IF s = <<>> THEN TRUE
    ELSE IF s[1] # t[1] THEN s[1] < t[1]
    ELSE LexLess(Tail(s), Tail(t))

Values(m) == {m[k] : k \in DOMAIN m}

RECURSIVE SortSet(_)
SortSet(S) ==
    IF S = {} THEN <<>>
    ELSE LET least == CHOOSE x \in S : \A y \in S : x = y \/ LexLess(x, y)
         IN <<least>> \o SortSet(S \ {least})

\* faulty variant: list(matched_tags.values()), neither de-duplicated nor sorted
RECURSIVE values_list(_)
values_list(m) ==
    IF DOMAIN m = {} THEN <<>>
    ELSE LET k == Longest(DOMAIN m)
         IN <<m[k]>> \o values_list([j \in DOMAIN m \ {k} |-> m[j]])

sorted_set(m) == SortSet(Values(m))

-----------------------------------------------------------------------------
(* functools.lru_cache around retrieve_tags_using_ip *)

CacheKeys(c) == {c[i].key : i \in 1..Len(c)}

\* faulty variant: a hit answers with the most recently used entry, whatever its key
CacheValueNewest(c, k) == c[Len(c)].value

CacheValue(c, k) == c[CHOOSE i \in 1..Len(c) : c[i].key = k].value

\* a hit moves the entry to the most recently used end
CacheTouch(c, k) ==
    LET i == CHOOSE j \in 1..Len(c) : c[j].key = k
    IN SubSeq(c, 1, i - 1) \o SubSeq(c, i + 1, Len(c)) \o <<c[i]>>

\* faulty variant: a full cache drops its most recently used entry
CacheStoreDropNewest(c, k, v) ==
    IF k \in CacheKeys(c) THEN c
    ELSE IF Len(c) >= CacheMaxSize
        THEN Append(SubSeq(c, 1, Len(c) - 1), [key |-> k, value |-> v])
    ELSE Append(c, [key |-> k, value |-> v])

\* faulty variant: the entry is published before the list is filled in
CacheStoreUnfilled(c, k, v) ==
    IF k \in CacheKeys(c) THEN c ELSE Append(c, [key |-> k, value |-> <<>>])

\* after the wrapped call returned: keep an entry another call added
\* meanwhile, else insert, dropping the least recently used entry when full
CacheStore(c, k, v) ==
    IF k \in CacheKeys(c) THEN c
    ELSE IF Len(c) >= CacheMaxSize THEN Append(Tail(c), [key |-> k, value |-> v])
    ELSE Append(c, [key |-> k, value |-> v])

-----------------------------------------------------------------------------
(* KnowledgeBase.__create_patricia_trie *)

\* the exception one record raises before the trie is touched, or NoError
\* (MissingFieldError is the re-raised KeyError, InvalidNetworkError the
\* re-raised ValueError)
RecordError(r) ==
    IF "ip_network" \notin DOMAIN r
        THEN [kind |-> "MissingFieldError", detail |-> "ip_network"]
    ELSE IF "tag" \notin DOMAIN r
        THEN [kind |-> "MissingFieldError", detail |-> "tag"]
    ELSE IF ~ValidNetwork(r.ip_network)
        THEN [kind |-> "InvalidNetworkError", detail |-> "ip_network"]
    ELSE NoError

\* What the 32-bit trie does with the key of a record. An IPv4 key is
\* stored. ipaddress.ip_network also accepts an IPv6 network and the loop
\* has no family check, so such a key reaches the trie: the library either
\* stores it or raises ValueError.
TrieOutcomes(r) ==
    IF NetworkFamily(r.ip_network) = 4 THEN {"stored"} ELSE {"stored", "ValueError"}

\* one iteration of the for loop
LoadRecord ==
    /\ kb = "loading"
    /\ loadError = NoError
    /\ idx <= Len(data)
    /\ LET r == data[idx] IN
       IF RecordError(r) # NoError
       THEN /\ loadError' = RecordError(r)
            /\ UNCHANGED <<idx, trie>>
       ELSE \E o \in TrieOutcomes(r) :
            IF o = "stored"
            THEN /\ trie' = TrieAssign(trie, r.ip_network, r.tag)
                 /\ idx' = idx + 1
                 /\ UNCHANGED loadError
            ELSE /\ loadError' = [kind |-> "InvalidNetworkError", detail |-> "ip_network"]
                 /\ UNCHANGED <<idx, trie>>
    /\ UNCHANGED <<data, kb, cache, pc, arg, prefix, matched_tags, ret,
                   lookups, first, fresh, env>>

\* RestApiConfig.ready: the constructor returned and the object is published
KbReady ==
    /\ kb = "loading"
    /\ loadError = NoError
    /\ idx > Len(data)
    /\ kb' = "ready"
    /\ UNCHANGED <<data, idx, trie, loadError, cache, pc, arg, prefix,
                   matched_tags, ret, lookups, first, fresh, env>>

\* RestApiConfig.ready: the constructor raised; the exception is logged and
\* knowledge_base stays None
KbFailed ==
    /\ kb = "loading"
    /\ loadError # NoError
    /\ kb' = "none"
    /\ UNCHANGED <<data, idx, trie, loadError, cache, pc, arg, prefix,
                   matched_tags, ret, lookups, first, fresh, env>>

-----------------------------------------------------------------------------
(* KnowledgeBase.retrieve_tags_using_ip *)

\* Outcomes of a call. The code raises ValueError for both query errors;
\* they are told apart by the statement that raises: InvalidAddressError is
\* the ValueError of ipaddress.ip_address, UnsupportedFamilyError the one
\* raised after the isinstance check. AttributeError is what a caller gets
\* from a knowledge_base that is None.
Pending == [kind |-> "pending"]
Raised(e) == [kind |-> "error", error |-> e]
Returned(v, how) == [kind |-> "list", value |-> v, via |-> how]

\* the n-th never-seen-before address of the workload
Filler(n) == <<172, 16, n \div 256, n % 256>>

Inputs == env.queryIps \cup (IF fresh < env.maxFresh THEN {Filler(fresh + 1)} ELSE {})

\* a caller invokes kb.retrieve_tags_using_ip(ip); the lru_cache wrapper
\* answers a cached key itself
Call(t) ==
    /\ t \in env.threads
    /\ kb # "loading"
    /\ pc[t] = "idle"
    /\ \E a \in Inputs :
        /\ arg' = [arg EXCEPT ![t] = a]
        /\ fresh' = IF a \in env.queryIps THEN fresh ELSE fresh + 1
        /\ lookups' = [lookups EXCEPT ![t] = 0]
        /\ prefix' = [prefix EXCEPT ![t] = None]
        /\ matched_tags' = [matched_tags EXCEPT ![t] = EmptyMap]
        /\ IF kb = "none"
           THEN /\ ret' = [ret EXCEPT ![t] = Raised("AttributeError")]
                /\ UNCHANGED <<pc, cache>>
           ELSE IF a \in CacheKeys(cache)
           THEN /\ ret' = [ret EXCEPT ![t] = Returned(CacheValue(cache, a), "cache")]
                /\ cache' = CacheTouch(cache, a)
                /\ UNCHANGED pc
           ELSE /\ ret' = [ret EXCEPT ![t] = Pending]
                /\ pc' = [pc EXCEPT ![t] = "get_key"]
                /\ UNCHANGED cache
    /\ UNCHANGED <<data, idx, trie, kb, loadError, first, env>>

\* prefix = self.trie.get_key(ipaddress.ip_address(ip))
GetKey(t) ==
    /\ pc[t] = "get_key"
    /\ IF Family(arg[t]) = 0
       THEN /\ ret' = [ret EXCEPT ![t] = Raised("InvalidAddressError")]
            /\ pc' = [pc EXCEPT ![t] = "idle"]
            /\ UNCHANGED <<prefix, lookups>>
       ELSE /\ prefix' = [prefix EXCEPT ![t] = get_key(trie, arg[t])]
            /\ lookups' = [lookups EXCEPT ![t] = @ + 1]
            /\ pc' = [pc EXCEPT ![t] = "check"]
            /\ UNCHANGED ret
    /\ UNCHANGED <<data, idx, trie, kb, loadError, cache, arg, matched_tags,
                   first, fresh, env>>

\* faulty variant: the family check accepts every parsed network
IsAnyNetwork(a) == Family(a) # 0

\* isinstance(ipaddress.ip_network(ip), ipaddress.IPv4Network)
IsIPv4Network(a) == Family(a) = 4

\* network = ipaddress.ip_network(ip); the isinstance check
FamilyCheck(t) ==
    /\ pc[t] = "check"
    /\ IF ~IsIPv4Network(arg[t])
       THEN /\ ret' = [ret EXCEPT ![t] = Raised("UnsupportedFamilyError")]
            /\ pc' = [pc EXCEPT ![t] = "idle"]
       ELSE /\ pc' = [pc EXCEPT ![t] = "walk"]
            /\ UNCHANGED ret
    /\ UNCHANGED <<data, idx, trie, kb, loadError, cache, arg, prefix,
                   matched_tags, lookups, first, fresh, env>>

\* faulty variant: the cap is tested one prefix too late
CapReachedLate(m) == Cardinality(DOMAIN m) = MaxPrefixes + 1

\* the loop leaves once matched_tags holds this many prefixes
CapReached(m) == Cardinality(DOMAIN m) = MaxPrefixes

\* one iteration of the while loop
Walk(t) ==
    /\ pc[t] = "walk"
    /\ prefix[t] # None
    /\ LET m == TrieAssign(matched_tags[t], prefix[t], trie[prefix[t]]) IN
        /\ matched_tags' = [matched_tags EXCEPT ![t] = m]
        /\ prefix' = [prefix EXCEPT ![t] = parent(trie, prefix[t])]
        /\ lookups' = [lookups EXCEPT ![t] = @ + 1]
        /\ pc' = [pc EXCEPT ![t] = IF CapReached(m) THEN "sort" ELSE "walk"]
    /\ UNCHANGED <<data, idx, trie, kb, loadError, cache, arg, ret, first,
                   fresh, env>>

\* the while condition fails
WalkEnd(t) ==
    /\ pc[t] = "walk"
    /\ prefix[t] = None
    /\ pc' = [pc EXCEPT ![t] = "sort"]
    /\ UNCHANGED <<data, idx, trie, kb, loadError, cache, arg, prefix,
                   matched_tags, ret, lookups, first, fresh, env>>

\* result = sorted(set(matched_tags.values())); return result, through the
\* lru_cache wrapper, which stores it
Return(t) ==
    /\ pc[t] = "sort"
    /\ LET result == sorted_set(matched_tags[t]) IN
        /\ ret' = [ret EXCEPT ![t] =
                     Returned(result, IF arg[t] \in DOMAIN first
                                      THEN "recomputed" ELSE "computed")]
        /\ cache' = CacheStore(cache, arg[t], result)
        /\ first' = IF arg[t] \in DOMAIN first THEN first
                    ELSE [a \in DOMAIN first \cup {arg[t]} |->
                            IF a = arg[t] THEN result ELSE first[a]]
    /\ pc' = [pc EXCEPT ![t] = "idle"]
    /\ UNCHANGED <<data, idx, trie, kb, loadError, arg, prefix, matched_tags,
                   lookups, fresh, env>>

Next ==
    \/ LoadRecord
    \/ KbReady
    \/ KbFailed
    \/ \E t \in Threads :
        \/ Call(t)
        \/ GetKey(t)
        \/ FamilyCheck(t)
        \/ Walk(t)
        \/ WalkEnd(t)
        \/ Return(t)

-----------------------------------------------------------------------------
(* Inputs *)

foo == <<102, 111, 111>>
bar == <<98, 97, 114>>
ba == <<98, 97>>
SPAM == <<83, 80, 65, 77>>

Net(a, l) == [addr |-> a, len |-> l]
Rec(n, t) == [ip_network |-> n, tag |-> t]

Net16 == Net(<<10, 20, 0, 0>>, 16)
Net32 == Net(<<10, 20, 30, 40>>, 32)
Net29 == Net(<<192, 0, 2, 8>>, 29)

NetBadLength == Net(<<10, 0, 0, 0>>, 99)
NetHostBits == Net(<<10, 20, 30, 40>>, 16)
NetV6 == Net(<<8193, 3512, 0, 0, 0, 0, 0, 0>>, 32)

Ip40 == <<10, 20, 30, 40>>
Ip41 == <<10, 20, 30, 41>>
IpNone == <<203, 0, 113, 1>>
IpBad == <<300, 300, 300>>
IpV6 == <<8193, 3512, 0, 0, 0, 0, 0, 1>>

ValidRecords ==
    {Rec(Net16, bar), Rec(Net16, foo), Rec(Net32, SPAM), Rec(Net32, bar),
     Rec(Net29, ba)}

InvalidRecords ==
    {[ip_network |-> Net16], [tag |-> foo], Rec(NetBadLength, foo),
     Rec(NetHostBits, foo), Rec(NetV6, foo)}

SeqsUpTo(S, n) == UNION {[1..k -> S] : k \in 0..n}

InitState(d, e) ==
    /\ data = d
    /\ env = e
    /\ idx = 1
    /\ trie = EmptyMap
    /\ kb = "loading"
    /\ loadError = NoError
    /\ cache = <<>>
    /\ pc = [t \in Threads |-> "idle"]
    /\ arg = [t \in Threads |-> <<>>]
    /\ prefix = [t \in Threads |-> None]
    /\ matched_tags = [t \in Threads |-> EmptyMap]
    /\ ret = [t \in Threads |-> Pending]
    /\ lookups = [t \in Threads |-> 0]
    /\ first = EmptyMap
    /\ fresh = 0

\* any file of up to MaxRecords records, one request thread
Init ==
    \E d \in SeqsUpTo(ValidRecords \cup InvalidRecords, MaxRecords) :
        InitState(d, [threads |-> {1}, queryIps |-> {Ip40, Ip41, IpBad, IpV6},
                      maxFresh |-> 0])

Spec == Init /\ [][Next]_vars

\* the network of length l around address a
Mask(a, l) ==
    Net([i \in 1..4 |->
            LET keep == IF l >= 8 * i THEN 8
                        ELSE IF l <= 8 * (i - 1) THEN 0
                        ELSE l - 8 * (i - 1)
            IN (a[i] \div (2 ^ (8 - keep))) * (2 ^ (8 - keep))], l)

\* the lengths a nested chain around Ip40 is drawn from
DeepLengths == (32 - (MaxPrefixes + DeepExtra))..32

RECURSIVE SetToSeq(_)
SetToSeq(S) ==
    IF S = {} THEN <<>>
    ELSE LET l == CHOOSE x \in S : \A y \in S : x <= y
         IN <<l>> \o SetToSeq(S \ {l})

\* a chain of nested networks, all tagged foo but the one of length odd
\* (the most specific, or one at or beyond the cap), which is tagged bar; listed from the least specific to the most specific
Chain(lens, odd) ==
    LET ls == SetToSeq(lens)
    IN [i \in 1..Len(ls) |-> Rec(Mask(Ip40, ls[i]), IF ls[i] = odd THEN bar ELSE foo)]

\* MaxPrefixes to MaxPrefixes + DeepExtra nested networks around one
\* address, optionally followed by a record without tag
InitDeep ==
    \E lens \in SUBSET DeepLengths :
        /\ Cardinality(lens) \in MaxPrefixes..(MaxPrefixes + DeepExtra)
        /\ \E odd \in lens, tail \in {<<>>, <<[ip_network |-> Net16]>>} :
            /\ Cardinality({l \in lens : l > odd}) \in {0} \cup (MaxPrefixes - 1)..32
            /\ InitState(Chain(lens, odd) \o tail,
                         [threads |-> {1}, queryIps |-> {Ip40, IpNone, IpV6},
                          maxFresh |-> 0])

SpecDeep == InitDeep /\ [][Next]_vars

SmallFiles ==
    {<<Rec(Net16, bar), Rec(Net32, SPAM)>>, <<Rec(Net16, bar), [tag |-> foo]>>}

\* one probe address queried again and again between more than
\* CacheMaxSize addresses never seen before
InitCache ==
    \E d \in SmallFiles :
        InitState(d, [threads |-> {1}, queryIps |-> {Ip40},
                      maxFresh |-> CacheMaxSize + ExtraFresh])

SpecCache == InitCache /\ [][Next]_vars

\* every request thread querying the same few addresses
InitConc ==
    \E d \in SmallFiles :
        InitState(d, [threads |-> Threads, queryIps |-> {Ip40, Ip41, IpV6},
                      maxFresh |-> 0])

SpecConc == InitConc /\ [][Next]_vars

\* both families of files
SpecAll == (Init \/ InitDeep) /\ [][Next]_vars

-----------------------------------------------------------------------------
(* What the records say, independently of the trie *)

Networks == {data[i].ip_network : i \in {j \in 1..Len(data) : "ip_network" \in DOMAIN data[j]}}

\* a record the loader must accept: both keys, a valid IPv4 CIDR block
GoodRecord(r) ==
    /\ DOMAIN r = {"ip_network", "tag"}
    /\ ValidNetwork(r.ip_network)
    /\ NetworkFamily(r.ip_network) = 4

AllGood == \A i \in 1..Len(data) : GoodRecord(data[i])

\* network n contains address a
Contains(n, a) == \A i \in 1..n.len : Bit(n.addr, i) = Bit(a, i)

Covering(a) == {n \in Networks : Contains(n, a)}

LastIndex(n) ==
    CHOOSE i \in 1..Len(data) :
        /\ data[i].ip_network = n
        /\ \A j \in (i + 1)..Len(data) : data[j].ip_network # n

LastTag(n) == data[LastIndex(n)].tag

Range(s) == {s[i] : i \in 1..Len(s)}

Done(t) == pc[t] = "idle" /\ ret[t].kind # "pending"

GotList(t) == Done(t) /\ ret[t].kind = "list"

-----------------------------------------------------------------------------
(* Claims *)

MostSpecific(a) ==
    {n \in Covering(a) :
        Cardinality({m \in Covering(a) : m.len > n.len}) < MaxPrefixes}

\* C2: a query for an address covered by more than 10 stored networks
\* does not fail and returns the distinct tags of exactly the 10 most
\* specific of them; a tag bound only to a less specific one is absent.
C2_TenMostSpecific ==
    \A t \in Threads :
        (kb = "ready" /\ Done(t) /\ Family(arg[t]) = 4
            /\ Cardinality(Covering(arg[t])) > MaxPrefixes)
        => /\ ret[t].kind = "list"
           /\ Range(ret[t].value) = {LastTag(n) : n \in MostSpecific(arg[t])}
           /\ Len(ret[t].value) = Cardinality(Range(ret[t].value))

\* 11 nested networks, only the least specific tagged bar: bar is absent
C2_Witness ==
    /\ GotList(1)
    /\ arg[1] = Ip40
    /\ Cardinality(Covering(Ip40)) = MaxPrefixes + 1
    /\ \E n \in Covering(Ip40) :
        /\ LastTag(n) = bar
        /\ \A m \in Covering(Ip40) : n.len <= m.len
    /\ Cardinality(DOMAIN matched_tags[1]) = MaxPrefixes
    /\ ret[1].value = <<foo>>

StrictlyAscending(s) == \A i \in 1..(Len(s) - 1) : LexLess(s[i], s[i + 1])

\* C3: every returned list is strictly ascending in lexicographic order,
\* hence without repeated elements, also when one tag is bound to several
\* covering networks.
C3_StrictlyAscending ==
    \A t \in Threads : GotList(t) => StrictlyAscending(ret[t].value)

\* the same tag on both covering networks, returned once
C3_Witness ==
    /\ GotList(1)
    /\ Cardinality(DOMAIN matched_tags[1]) = 2
    /\ Values(matched_tags[1]) = {bar}
    /\ ret[1].value = <<bar>>

\* C4: a query with a string that is no IP address fails with
\* InvalidAddressError, one with a valid non-IPv4 address fails with
\* UnsupportedFamilyError; neither returns a list.
C4_QueryErrors ==
    \A t \in Threads :
        (kb = "ready" /\ Done(t))
        => /\ Family(arg[t]) = 0 => ret[t] = Raised("InvalidAddressError")
           /\ Family(arg[t]) = 6 => ret[t] = Raised("UnsupportedFamilyError")

\* the IPv6 query has failed at the family check
C4_Witness ==
    /\ kb = "ready"
    /\ Done(1)
    /\ arg[1] = IpV6
    /\ ret[1] = Raised("UnsupportedFamilyError")

BadIndexes == {i \in 1..Len(data) : ~GoodRecord(data[i])}

FirstBad == CHOOSE i \in BadIndexes : \A j \in BadIndexes : i <= j

\* the errors the claim allows for a bad record
ClaimedErrors(r) ==
    {[kind |-> "MissingFieldError", detail |-> k] : k \in {"ip_network", "tag"} \ DOMAIN r}
    \cup (IF "ip_network" \in DOMAIN r
             /\ ~(ValidNetwork(r.ip_network) /\ NetworkFamily(r.ip_network) = 4)
          THEN {[kind |-> "InvalidNetworkError", detail |-> "ip_network"]}
          ELSE {})

\* C5: with a record that lacks a key or whose ip_network is no valid IPv4
\* CIDR block, construction fails at the first such record with that
\* record's error, no later record is processed, and no knowledge base
\* ever answers a query.
C5_FailFast ==
    BadIndexes # {}
    => /\ idx <= FirstBad
       /\ kb # "ready"
       /\ loadError # NoError
            => (idx = FirstBad /\ loadError \in ClaimedErrors(data[FirstBad]))
       /\ cache = <<>>
       /\ \A t \in Threads : ret[t].kind # "list"

\* C6: after construction each network is bound to the tag of its last
\* record only, whatever the other networks are bound to, and a returned
\* list holds no tag but last tags of networks matching the address.
C6_LastRecordWins ==
    kb = "ready"
    => /\ DOMAIN trie = Networks
       /\ \A n \in Networks : trie[n] = LastTag(n)
       /\ \A t \in Threads :
            GotList(t) =>
                Range(ret[t].value) \subseteq
                    {LastTag(n) : n \in {m \in Networks : Matches(m, Bits(arg[t]))}}

\* 10.20.0.0/16 given twice, bar then foo: the query sees foo and not bar,
\* and the /32 keeps its own tag
C6_Witness ==
    /\ data = <<Rec(Net16, bar), Rec(Net32, SPAM), Rec(Net16, foo)>>
    /\ GotList(1)
    /\ arg[1] = Ip40
    /\ ret[1].value = <<SPAM, foo>>

\* C10: the address is validated and its family checked before the trie is
\* consulted: a call that fails on either has executed no trie lookup.
C10_ChecksBeforeLookup ==
    \A t \in Threads :
        (Done(t) /\ ret[t].kind = "error"
            /\ ret[t].error \in {"InvalidAddressError", "UnsupportedFamilyError"})
        => lookups[t] = 0

\* C7: every successful call for an address returns the list its first
\* successful call returned, be it served from the cache or recomputed.
C7_SameAsFirstCall ==
    \A t \in Threads : GotList(t) => ret[t].value = first[arg[t]]

\* the probe address, evicted meanwhile, has been recomputed
C7_Witness ==
    /\ GotList(1)
    /\ arg[1] = Ip40
    /\ ret[1].via = "recomputed"
    /\ ret[1].value = <<SPAM, bar>>
    /\ fresh >= CacheMaxSize

\* C8 as stated: an entry, once created, stays in the cache for ever.
C8_EntryPersists == [][CacheKeys(cache) \subseteq CacheKeys(cache')]_vars

\* C8 amended: a successful computation leaves an entry for its address;
\* an entry leaves the cache only as the least recently used entry of a
\* full cache, when another address is stored; the index is consulted only
\* by calls for addresses that have no entry.
C8_EntryPersistsUntilEvicted ==
    [][/\ \A t \in Threads :
            /\ (pc[t] = "sort" /\ pc'[t] = "idle") => arg[t] \in CacheKeys(cache')
            /\ (pc[t] = "idle" /\ pc'[t] = "get_key") => arg'[t] \notin CacheKeys(cache)
            /\ (pc[t] = "idle" /\ pc'[t] = "idle" /\ kb = "ready"
                    /\ arg'[t] \in CacheKeys(cache))
                => (ret'[t] = Returned(CacheValue(cache, arg'[t]), "cache")
                        /\ lookups'[t] = 0)
       /\ \A k \in CacheKeys(cache) \ CacheKeys(cache') :
            /\ Len(cache) = CacheMaxSize
            /\ Len(cache') = CacheMaxSize
            /\ cache[1].key = k
            /\ cache'[CacheMaxSize].key \notin CacheKeys(cache)
      ]_vars

\* the probe address has been computed and is no longer cached
C8_Witness ==
    /\ Ip40 \in DOMAIN first
    /\ Ip40 \notin CacheKeys(cache)
    /\ Len(cache) = CacheMaxSize

\* what one call alone returns for address a
Sequential(a) == SortSet({LastTag(n) : n \in MostSpecific(a)})

\* C9: under every interleaving of calls each call returns the list a
\* sequential call returns, a cache entry only ever holds that complete
\* list, and the trie stays as construction left it.
C9_ConcurrentCalls ==
    kb = "ready"
    => /\ \A t \in Threads : GotList(t) => ret[t].value = Sequential(arg[t])
       /\ \A i \in 1..Len(cache) : cache[i].value = Sequential(cache[i].key)
       /\ trie = [n \in Networks |-> LastTag(n)]

\* two calls raced to fill the entry of the same address
C9_Witness ==
    /\ GotList(1)
    /\ GotList(2)
    /\ arg[1] = Ip40
    /\ arg[2] = Ip40
    /\ ret[1].via = "computed"
    /\ ret[2].via = "recomputed"
    /\ lookups[1] > 0
    /\ lookups[2] > 0

====
